---- MODULE Spec2Model ----
(***************************************************************************)
(* Model of program/GPStest.py: the NMEA GGA acquisition loop, its         *)
(* coordinate converter and its CSV log file handling.                     *)
(*                                                                         *)
(* Text is modelled as a sequence of one-character strings, so that        *)
(* split, startswith, slicing, int() and float() are computed as the       *)
(* code computes them.  Floats are modelled as exact rationals             *)
(* num / (60 * 10^k) (coordinates) or num / 10^k (other fields).           *)
(***************************************************************************)
EXTENDS Integers, Sequences, FiniteSets, TLC

VARIABLES pc, file, clock, runs, openHandles, iter, prevOutcome,
          raw_coord, direction, result

vars == <<pc, file, clock, runs, openHandles, iter, prevOutcome,
          raw_coord, direction, result>>

\* ---------------------------------------------------------------- bounds
\* lines handed to the acquisition loop over all runs
MaxClock == 3
\* program starts (power cycles)
MaxRuns == 2
\* characters in the integer part of a generated coordinate magnitude
MaxIntDigits == 5

\* ------------------------------------------------------ program constants
SERIAL_OUTPUT_TO_REPL == TRUE
RECORD_TO_CSV == TRUE
CSV_HEADER == "Timestamp,Latitude,Longitude,Altitude,Satellites,GPS_Quality,HDOP"
MinFields == 15

\* a line of the log file is the tuple of its fields; the header row is one text
HeaderLine == <<CSV_HEADER>>

\* ------------------------------------------------------------ text helpers
Digits == {"0", "1", "2", "3", "4", "5", "6", "7", "8", "9"}

DigitVal(c) ==
  CASE c = "0" -> 0 [] c = "1" -> 1 [] c = "2" -> 2 [] c = "3" -> 3
    [] c = "4" -> 4 [] c = "5" -> 5 [] c = "6" -> 6 [] c = "7" -> 7
    [] c = "8" -> 8 [] c = "9" -> 9

RECURSIVE Pow10(_)
Pow10(n) == IF n = 0 THEN 1 ELSE 10 * Pow10(n - 1)

AllDigits(s) == \A i \in 1..Len(s) : s[i] \in Digits

RECURSIVE NatVal(_)
NatVal(s) ==
  IF Len(s) = 0 THEN 0
  ELSE 10 * NatVal(SubSeq(s, 1, Len(s) - 1)) + DigitVal(s[Len(s)])

\* str.split(sep) with a one-character separator
RECURSIVE Split(_, _)
Split(s, sep) ==
  IF \A i \in 1..Len(s) : s[i] # sep THEN <<s>>
  ELSE LET i == CHOOSE i \in 1..Len(s) :
                  s[i] = sep /\ \A j \in 1..(i - 1) : s[j] # sep
       IN <<SubSeq(s, 1, i - 1)>> \o Split(SubSeq(s, i + 1, Len(s)), sep)

RECURSIVE Join(_, _)
Join(fields, sep) ==
  IF Len(fields) = 0 THEN <<>>
  ELSE IF Len(fields) = 1 THEN fields[1]
  ELSE fields[1] \o <<sep>> \o Join(Tail(fields), sep)

StartsWith(s, p) == Len(s) >= Len(p) /\ SubSeq(s, 1, Len(p)) = p

Whitespace == {" ", "\r", "\n"}

\* str.strip()
RECURSIVE Strip(_)
Strip(s) ==
  IF Len(s) = 0 THEN s
  ELSE IF s[1] \in Whitespace THEN Strip(Tail(s))
  ELSE IF s[Len(s)] \in Whitespace THEN Strip(SubSeq(s, 1, Len(s) - 1))
  ELSE s

\* sign and body of a numeric literal
Unsigned(s) == IF Len(s) > 0 /\ s[1] \in {"-", "+"} THEN Tail(s) ELSE s
SignOf(s) == IF Len(s) > 0 /\ s[1] = "-" THEN -1 ELSE 1

\* int(s): ok = FALSE stands for ValueError
ParseInt(s) ==
  LET body == Unsigned(s)
      good == Len(body) > 0 /\ AllDigits(body)
  IN [ok |-> good, val |-> IF good THEN SignOf(s) * NatVal(body) ELSE 0]

\* float(s) as num / 10^k: ok = FALSE stands for ValueError
ParseFloat(s) ==
  LET body == Unsigned(s)
      ps == Split(body, ".")
      ip == ps[1]
      fp == IF Len(ps) >= 2 THEN ps[2] ELSE <<>>
      good == /\ Len(ps) <= 2
              /\ AllDigits(ip) /\ AllDigits(fp)
              /\ Len(ip) + Len(fp) > 0
  IN [ok |-> good,
      num |-> IF good THEN SignOf(s) * (NatVal(ip) * Pow10(Len(fp)) + NatVal(fp))
              ELSE 0,
      k |-> IF good THEN Len(fp) ELSE 0]

\* round-half-up of n / d for n >= 0, d > 0
RoundDiv(n, d) == (2 * n + d) \div (2 * d)

Abs(n) == IF n < 0 THEN -n ELSE n
Sgn(n) == IF n < 0 THEN -1 ELSE 1

\* one-decimal formatting (f"{x:.1f}", round(x, 1)) of num / 10^k, in tenths
Format1(x) ==
  Sgn(x.num) * (IF x.k <= 1 THEN Abs(x.num) * Pow10(1 - x.k)
                ELSE RoundDiv(Abs(x.num), Pow10(x.k - 1)))

\* ------------------------------------------------- convert_nmea_coord
\* a coordinate value is num / (60 * 10^k) degrees
None == [some |-> FALSE, mag |-> [num |-> 0, k |-> 0], value |-> [num |-> 0, k |-> 0]]

Den(v) == 60 * Pow10(v.k)

\* six-decimal formatting (f"{v:.6f}", round(v, 6)), in micro-degrees
Format6(v) ==
  LET a == Abs(v.num)
      q == a \div Den(v)
      r == a % Den(v)
      frac == IF v.k <= 6 THEN RoundDiv(r * Pow10(6 - v.k), 60)
              ELSE RoundDiv(r, 60 * Pow10(v.k - 6))
  IN Sgn(v.num) * (q * 1000000 + frac)

\* the degrees / minutes strings cut from the integer and fractional parts
DegMinSplitWide(p0, p1) ==
  IF Len(p0) > 3
  THEN [deg |-> SubSeq(p0, 1, Len(p0) - 2),
        min |-> SubSeq(p0, Len(p0) - 1, Len(p0)) \o <<".">> \o p1]
  ELSE [deg |-> p0, min |-> <<"0", ".">> \o p1]

DegMinSplit(p0, p1) ==
  IF Len(p0) > 2
  THEN [deg |-> SubSeq(p0, 1, Len(p0) - 2),
        min |-> SubSeq(p0, Len(p0) - 1, Len(p0)) \o <<".">> \o p1]
  ELSE [deg |-> p0, min |-> <<"0", ".">> \o p1]

ApplyDirectionSouthOnly(v, dir) ==
  IF dir \in {<<"S">>} THEN [num |-> -v.num, k |-> v.k] ELSE v

\* if direction in ['S', 'W']: value = -value
ApplyDirection(v, dir) ==
  IF dir \in {<<"S">>, <<"W">>} THEN [num |-> -v.num, k |-> v.k] ELSE v

convert_nmea_coord(raw, dir) ==
  IF Len(raw) = 0 \/ Len(dir) = 0 THEN None
  ELSE LET parts == Split(raw, ".")
       IN IF Len(parts) # 2 THEN None
          ELSE LET dm == DegMinSplit(parts[1], parts[2])
                   degrees == ParseFloat(dm.deg)
                   minutes == ParseFloat(dm.min)
               IN IF ~degrees.ok \/ ~minutes.ok THEN None
                  ELSE LET \* degrees has no fractional digits: parts[0] holds no '.'
                           m == [num |-> degrees.num * 60 * Pow10(minutes.k) + minutes.num,
                                 k |-> minutes.k]
                       IN [some |-> TRUE, mag |-> m, value |-> ApplyDirection(m, dir)]

\* ------------------------------------------------------------ log file
\* the file system entry gps_log.csv: whether it exists and its lines
Absent == [exists |-> FALSE, lines |-> <<>>]

\* open(CSV_FILENAME, mode): "w" truncates, "a" keeps the content; both create
\* a missing file.  fail = TRUE stands for OSError.
OpenFile(f, mode, fail) ==
  IF fail THEN [ok |-> FALSE, file |-> f]
  ELSE [ok |-> TRUE,
        file |-> [exists |-> TRUE,
                  lines |-> IF mode = "a" /\ f.exists THEN f.lines ELSE <<>>]]

\* f.write(line): fail = TRUE stands for OSError, nothing written
WriteFile(f, line, fail) ==
  IF fail THEN [ok |-> FALSE, file |-> f]
  ELSE [ok |-> TRUE, file |-> [exists |-> TRUE, lines |-> Append(f.lines, line)]]

WithExitLeak(bodyOk) == IF bodyOk THEN 1 ELSE 0

\* leaving a with block closes the handle, whether the body raised or not
WithExit(bodyOk) == 1

\* the with block ends: w is the outcome of f.write
WithWritten(w) ==
  [ok |-> w.ok, file |-> w.file, opens |-> 1, closes |-> WithExit(w.ok)]

\* the with block once open() has returned or raised (o)
WithBody(f, o, line, writeFail) ==
  IF ~o.ok THEN [ok |-> FALSE, file |-> f, opens |-> 0, closes |-> 0]
  ELSE WithWritten(WriteFile(o.file, line, writeFail))

\* with open(CSV_FILENAME, mode) as f: f.write(line)
WithOpenWrite(f, mode, line, openFail, writeFail) ==
  WithBody(f, OpenFile(f, mode, openFail), line, writeFail)

\* lines 39-46: the file was missing, w is the outcome of writing the header
EnsureCreated(w) ==
  [ret |-> w.ok, file |-> w.file,
   reports |-> <<"info_new_file">> \o
               (IF w.ok THEN <<>> ELSE <<"error_file_create">>),
   opens |-> w.opens, closes |-> w.closes]

\* os.stat raises OSError for a missing file
ensure_file_exists(f, openFail, writeFail) ==
  IF f.exists
  THEN [ret |-> TRUE, file |-> f, reports |-> <<"info_existing_file">>,
        opens |-> 0, closes |-> 0]
  ELSE EnsureCreated(WithOpenWrite(f, "w", HeaderLine, openFail, writeFail))

\* ------------------------------------------------------------ exceptions
ParseErrors == {"ValueError", "IndexError", "TypeError"}

\* except (ValueError, IndexError, TypeError) as e
InnerCatches(exc) == exc \in ParseErrors

OuterCatchesUnicodeOnly(exc) == exc = "UnicodeError"

\* except UnicodeError: pass / except Exception as e: print(...)
OuterCatches(exc) ==
  exc \in {"UnicodeError", "ValueError", "IndexError", "TypeError",
           "OSError", "Exception"}

\* ------------------------------------------------------------ sinks
\* injected failures of one iteration
Faults ==
  {fl \in [read : BOOLEAN,
           json : {"none", "OSError", "ValueError"},
           aOpen : BOOLEAN, aWrite : BOOLEAN,
           eOpen : BOOLEAN, eWrite : BOOLEAN] :
     \* a failure that hides the later ones is listed once
     /\ fl.read => fl.json = "none"
     /\ (fl.read \/ fl.json # "none") => ~fl.aOpen /\ ~fl.aWrite
     /\ fl.aOpen => ~fl.aWrite
     /\ (~fl.aOpen /\ ~fl.aWrite) => ~fl.eOpen /\ ~fl.eWrite
     /\ fl.eOpen => ~fl.eWrite}

\* sys.stdout.write(ujson.dumps(gps_data) + '\n')
JsonSink(msg, fl) ==
  IF ~SERIAL_OUTPUT_TO_REPL THEN [exc |-> "none", emitted |-> <<>>, json |-> "off"]
  ELSE IF fl.json # "none" THEN [exc |-> fl.json, emitted |-> <<>>, json |-> "failed"]
  ELSE [exc |-> "none", emitted |-> <<msg>>, json |-> "ok"]

\* the append succeeded
CsvAppended(w) ==
  [file |-> w.file, csv |-> "ok", reports |-> <<>>, appends |-> 1,
   ensureCalls |-> 0, ensureOk |-> TRUE, ensureMissing |-> FALSE,
   opens |-> w.opens, closes |-> w.closes]

\* lines 152-156: the append raised OSError, e is what ensure_file_exists did
CsvRecovered(w, e) ==
  [file |-> e.file, csv |-> "failed",
   reports |-> <<"error_csv_write">> \o e.reports \o
               (IF e.ret THEN <<>> ELSE <<"error_recreate_failed">>),
   appends |-> 1, ensureCalls |-> 1, ensureOk |-> e.ret,
   ensureMissing |-> ~w.file.exists,
   opens |-> w.opens + e.opens, closes |-> w.closes + e.closes]

CsvRetried(c, again) ==
  [c EXCEPT !.file = again.file, !.appends = 2,
            !.opens = @ + again.opens, !.closes = @ + again.closes]

CsvHandlerRetry(w, csv_line, fl) ==
  IF w.ok THEN CsvAppended(w)
  ELSE CsvRetried(CsvRecovered(w, ensure_file_exists(w.file, fl.eOpen, fl.eWrite)),
                  WithOpenWrite(ensure_file_exists(w.file, fl.eOpen, fl.eWrite).file,
                                "a", csv_line, FALSE, FALSE))

\* lines 144-156: the try block around the append and its OSError handler
CsvHandler(w, csv_line, fl) ==
  IF w.ok THEN CsvAppended(w)
  ELSE CsvRecovered(w, ensure_file_exists(w.file, fl.eOpen, fl.eWrite))

\* if RECORD_TO_CSV: with open(CSV_FILENAME, "a") as f: f.write(csv_line)
CsvSink(f, csv_line, fl) ==
  IF ~RECORD_TO_CSV
  THEN [file |-> f, csv |-> "off", reports |-> <<>>, appends |-> 0,
        ensureCalls |-> 0, ensureOk |-> TRUE, ensureMissing |-> FALSE,
        opens |-> 0, closes |-> 0]
  ELSE CsvHandler(WithOpenWrite(f, "a", csv_line, fl.aOpen, fl.aWrite), csv_line, fl)

\* the result of a stage that touched neither sink
Quiet(f, exc, outcome, reports) ==
  [exc |-> exc, outcome |-> outcome, file |-> f, reports |-> reports,
   emitted |-> <<>>, json |-> "none", csv |-> "none", appends |-> 0,
   ensureCalls |-> 0, ensureOk |-> TRUE, ensureMissing |-> FALSE,
   opens |-> 0, closes |-> 0, lat |-> None, lon |-> None]

\* both sinks ran: j is the structured message, c the CSV record
Dispatched(j, c, lat, lon) ==
  [exc |-> "none", outcome |-> "fix", file |-> c.file,
   reports |-> <<"fix_details">> \o c.reports,
   emitted |-> j.emitted, json |-> j.json, csv |-> c.csv, appends |-> c.appends,
   ensureCalls |-> c.ensureCalls, ensureOk |-> c.ensureOk,
   ensureMissing |-> c.ensureMissing,
   opens |-> c.opens, closes |-> c.closes, lat |-> lat, lon |-> lon]

\* lines 129-156: an exception of the first sink leaves the block at once
RunSinks(j, f, csv_line, fl, lat, lon) ==
  IF j.exc # "none"
  THEN [Quiet(f, j.exc, "fix", <<"fix_details">>)
          EXCEPT !.json = j.json, !.lat = lat, !.lon = lon]
  ELSE Dispatched(j, CsvSink(f, csv_line, fl), lat, lon)

\* lines 111-156: the fix branch, the structured message, then the CSV record
Dispatch(f, p, ts, fl) ==
  RunSinks(JsonSink([type |-> "gps", latitude |-> Format6(p.lat.value),
                     longitude |-> Format6(p.lon.value), timestamp |-> ts,
                     altitude |-> Format1(p.alt), num_satellites |-> p.sats,
                     gps_quality |-> p.quality, hdop |-> Format1(p.hdop)], fl),
           f,
           <<ts, Format6(p.lat.value), Format6(p.lon.value), Format1(p.alt),
             p.sats, p.quality, Format1(p.hdop)>>,
           fl, p.lat, p.lon)

\* if lat is not None and lon is not None
HasFix(lat, lon) == lat.some /\ lon.some

\* value if the field is non-empty else the default
IntOrDefault(s) == IF Len(s) > 0 THEN ParseInt(s) ELSE [ok |-> TRUE, val |-> 0]
FloatOrDefault(s) ==
  IF Len(s) > 0 THEN ParseFloat(s) ELSE [ok |-> TRUE, num |-> 0, k |-> 0]

NoFields ==
  [quality |-> 0, sats |-> 0, hdop |-> [num |-> 0, k |-> 0],
   alt |-> [num |-> 0, k |-> 0], lat |-> None, lon |-> None]

\* lines 108-111: the converted coordinates decide between fix and no fix
Located(gps_quality, num_satellites, hdop, altitude, lat, lon) ==
  [stage |-> IF HasFix(lat, lon) THEN "fix" ELSE "no_fix",
   fields |-> [quality |-> gps_quality.val, sats |-> num_satellites.val,
               hdop |-> hdop, alt |-> altitude, lat |-> lat, lon |-> lon]]

\* lines 101-104: a field that is no number raises ValueError
Extracted(parts, gps_quality, num_satellites, hdop, altitude) ==
  IF ~gps_quality.ok \/ ~num_satellites.ok \/ ~hdop.ok \/ ~altitude.ok
  THEN [stage |-> "parse_error", fields |-> NoFields]
  ELSE Located(gps_quality, num_satellites, hdop, altitude,
               convert_nmea_coord(parts[3], parts[4]),
               convert_nmea_coord(parts[5], parts[6]))

\* lines 96-111: field extraction and coordinate conversion
ParseFields(parts) ==
  Extracted(parts, IntOrDefault(parts[7]), IntOrDefault(parts[8]),
            FloatOrDefault(parts[9]), FloatOrDefault(parts[10]))

\* bytes that are not valid UTF-8 are modelled by the element "0xFF"
Decodable(line) == \A i \in 1..Len(line) : line[i] # "0xFF"

GNGGA == <<"$", "G", "N", "G", "G", "A">>
GPGGA == <<"$", "G", "P", "G", "G", "A">>

HasEnoughFieldsLoose(parts) == Len(parts) >= MinFields - 1

\* if len(parts) >= 15
HasEnoughFields(parts) == Len(parts) >= MinFields

\* lines 91-92: split and count the fields
SplitAndParse(parts) ==
  IF HasEnoughFields(parts) THEN ParseFields(parts)
  ELSE [stage |-> "short", fields |-> NoFields]

\* line 90: only the two GGA sentence types go on
Classify(decoded_line) ==
  IF StartsWith(decoded_line, GNGGA) \/ StartsWith(decoded_line, GPGGA)
  THEN SplitAndParse(Split(decoded_line, ","))
  ELSE [stage |-> "ignored", fields |-> NoFields]

\* lines 86-111: how far a line gets through decode, classify, split and parse
ClassifyLine(line) ==
  IF Len(line) = 0 THEN [stage |-> "no_line", fields |-> NoFields]
  ELSE IF ~Decodable(line) THEN [stage |-> "decode_error", fields |-> NoFields]
  ELSE Classify(Strip(line))

\* ------------------------------------------------------------ inputs
DirN == <<"N">>
DirS == <<"S">>
DirE == <<"E">>
DirW == <<"W">>

Lat4807 == <<"4", "8", "0", "7", ".", "0", "3", "8">>
Lon01131 == <<"0", "1", "1", "3", "1", ".", "0", "0", "0">>
LatTooBig == <<"1", "9", "9", "9", "9", ".", "0", "0", "0">>
LatNegative == <<"-", "4", "8", "0", "7", ".", "0", "3", "8">>
UtcTime == <<"1", "2", "3", "5", "1", "9">>

\* a 15-field GGA sentence as the receiver sends it
GgaLine(prefix, lat, latDir, lon, lonDir, quality, sats, hdop, alt) ==
  Join(<<prefix, UtcTime, lat, latDir, lon, lonDir, quality, sats, hdop, alt,
         <<"M">>, <<"4", "6", ".", "9">>, <<"M">>, <<>>, <<"*", "4", "7">>>>, ",")

LineFix ==
  GgaLine(GNGGA, Lat4807, DirN, Lon01131, DirE, <<"1">>, <<"0", "8">>,
          <<"0", ".", "9">>, <<"5", "4", "5", ".", "4">>) \o <<"\r", "\n">>
LineFixSouthWest ==
  GgaLine(GPGGA, Lat4807, DirS, Lon01131, DirW, <<>>, <<>>, <<>>, <<>>)
LineNoFix ==
  GgaLine(GNGGA, <<>>, <<>>, <<>>, <<>>, <<"0">>, <<"0", "0">>, <<>>, <<>>)
LineHalfFix ==
  GgaLine(GNGGA, Lat4807, DirN, <<>>, <<>>, <<"0">>, <<"0", "3">>, <<>>, <<>>)
LineBadNumber ==
  GgaLine(GNGGA, Lat4807, DirN, Lon01131, DirE, <<"x">>, <<"0", "8">>,
          <<"0", ".", "9">>, <<"5", "4", "5", ".", "4">>)
LineTooBig ==
  GgaLine(GNGGA, LatTooBig, DirN, Lon01131, DirE, <<"1">>, <<"0", "8">>,
          <<"0", ".", "9">>, <<"5", "4", "5", ".", "4">>)
LineNegative ==
  GgaLine(GNGGA, LatNegative, DirN, Lon01131, DirE, <<"1">>, <<"0", "8">>,
          <<"0", ".", "9">>, <<"5", "4", "5", ".", "4">>)
\* a GGA sentence cut after its 14th field
LineShort ==
  Join(<<GNGGA, UtcTime, Lat4807, DirN, Lon01131, DirE, <<"1">>, <<"0", "8">>,
         <<"0", ".", "9">>, <<"5", "4", "5", ".", "4">>, <<"M">>,
         <<"4", "6", ".", "9">>, <<"M">>, <<>>>>, ",")
LineTiny == Join(<<GNGGA, UtcTime>>, ",")
LineOtherSentence ==
  Join(<<(<<"$", "G", "N", "R", "M", "C">>), UtcTime, <<"A">>>>, ",")
LineUndecodable == <<"$", "G", "0xFF", "N">>
LineEmpty == <<>>

Lines ==
  {LineFix, LineFixSouthWest, LineNoFix, LineHalfFix, LineBadNumber, LineTooBig,
   LineNegative, LineShort, LineTiny, LineOtherSentence, LineUndecodable,
   LineEmpty}

\* magnitude strings and hemispheres handed to the converter on its own
IntAlphabet == {"0", "1", "9", "-"}
IntParts ==
  UNION {[1..n -> IntAlphabet] : n \in 0..MaxIntDigits}
    \cup {<<"4", "8", "0", "7">>, <<"0", "1", "1", "3", "1">>}
FracParts ==
  {<<>>, <<"0">>, <<"5">>, <<"0", "3", "8">>, <<"0", "0", "0">>, <<"x">>,
   <<"5", ".", "1">>}
CoordInputs ==
  {ip \o <<".">> \o fp : ip \in IntParts, fp \in FracParts}
    \cup {<<>>, <<"4", "8", "0", "7">>}
Directions == {<<>>, DirN, DirS, DirE, DirW, <<"X">>}

\* every input line's way through the pipeline, computed once
ParsedLines == [line \in Lines |-> ClassifyLine(line)]

\* lines 162-163: the handler of the inner try block
InnerHandler(body) ==
  IF InnerCatches(body.exc)
  THEN [body EXCEPT !.exc = "none",
                    !.reports = Append(body.reports, "error_nmea_parse")]
  ELSE body

\* lines 93-163: the inner try block and its handler
ParseAndDispatch(p, f, ts, fl) ==
  InnerHandler(
    IF p.stage = "parse_error" THEN Quiet(f, "ValueError", "parse_error", <<>>)
    ELSE IF p.stage = "fix" THEN Dispatch(f, p.fields, ts, fl)
    ELSE [Quiet(f, "none", "no_fix", <<"waiting_for_fix">>)
            EXCEPT !.lat = p.fields.lat, !.lon = p.fields.lon])

\* lines 85-165: the body of the outer try block
LineBody(p, f, ts, fl) ==
  IF fl.read THEN Quiet(f, "Exception", "read_error", <<>>)
  ELSE CASE p.stage = "no_line" -> Quiet(f, "none", "no_line", <<>>)
         [] p.stage = "decode_error" -> Quiet(f, "UnicodeError", "decode_error", <<>>)
         [] p.stage = "ignored" -> Quiet(f, "none", "ignored", <<>>)
         [] p.stage = "short" -> Quiet(f, "none", "short", <<"warning_incomplete">>)
         [] OTHER -> ParseAndDispatch(p, f, ts, fl)

\* lines 167-171: the handlers of the outer try block; exc is what escapes them
OuterHandler(body) ==
  IF body.exc = "none" THEN body
  ELSE IF ~OuterCatches(body.exc) THEN body
  ELSE IF body.exc = "UnicodeError" THEN [body EXCEPT !.exc = "none"]
  ELSE [body EXCEPT !.exc = "none",
                    !.reports = Append(body.reports, "error_unexpected")]

\* lines 84-171: one pass of the loop over a line
Iteration(line, f, ts, fl) ==
  OuterHandler(LineBody(ParsedLines[line], f, ts, fl))

\* ------------------------------------------------------------ state
\* what the most recent pass of the loop (or the startup) did
NoIter ==
  [outcome |-> "none", line |-> <<>>, fileBefore |-> Absent, emitted |-> <<>>,
   json |-> "none", csv |-> "none", appends |-> 0, ensureCalls |-> 0,
   ensureOk |-> TRUE, ensureMissing |-> FALSE, reports |-> <<>>,
   opens |-> 0, closes |-> 0, lat |-> None, lon |-> None]

Init ==
  /\ pc = "init"
  /\ file = Absent
  /\ clock = 0
  /\ runs = 1
  /\ openHandles = 0
  /\ iter = NoIter
  /\ prevOutcome = "none"
  /\ raw_coord = <<>>
  /\ direction = <<>>
  /\ result = None

convVars == <<raw_coord, direction, result>>

\* lines 75-77: prepare the log file, RuntimeError if that fails
Startup ==
  /\ pc = "init"
  /\ \E eOpen \in BOOLEAN, eWrite \in BOOLEAN :
     \E e \in {IF RECORD_TO_CSV THEN ensure_file_exists(file, eOpen, eWrite)
              ELSE [ret |-> TRUE, file |-> file, reports |-> <<>>,
                    opens |-> 0, closes |-> 0]} :
          /\ file' = e.file
          /\ pc' = IF e.ret THEN "loop" ELSE "fatal"
          /\ openHandles' = openHandles + e.opens - e.closes
          /\ iter' = [NoIter EXCEPT !.outcome = "startup",
                                    !.fileBefore = file,
                                    !.ensureCalls = IF RECORD_TO_CSV THEN 1 ELSE 0,
                                    !.ensureOk = e.ret,
                                    !.ensureMissing = ~file.exists,
                                    !.reports = e.reports,
                                    !.opens = e.opens, !.closes = e.closes]
  /\ prevOutcome' = iter.outcome
  /\ UNCHANGED <<clock, runs, convVars>>

\* lines 82-174: uart.any() is true and one line goes through the pipeline
ProcessLine ==
  /\ pc = "loop"
  /\ clock < MaxClock
  /\ \E line \in Lines, fl \in Faults :
     \E r \in {Iteration(line, file, clock + 1, fl)} :
          /\ file' = r.file
          /\ pc' = IF r.exc = "none" THEN "loop" ELSE "crashed"
          /\ openHandles' = openHandles + r.opens - r.closes
          /\ iter' = [outcome |-> r.outcome, line |-> line, fileBefore |-> file,
                      emitted |-> r.emitted, json |-> r.json, csv |-> r.csv,
                      appends |-> r.appends, ensureCalls |-> r.ensureCalls,
                      ensureOk |-> r.ensureOk, ensureMissing |-> r.ensureMissing,
                      reports |-> r.reports, opens |-> r.opens,
                      closes |-> r.closes, lat |-> r.lat, lon |-> r.lon]
  /\ clock' = clock + 1
  /\ prevOutcome' = iter.outcome
  /\ UNCHANGED <<runs, convVars>>

\* the board is reset or powered again: the script runs from its first line
Restart ==
  /\ pc \in {"loop", "fatal", "crashed"}
  /\ runs < MaxRuns
  /\ pc' = "init"
  /\ runs' = runs + 1
  /\ openHandles' = 0
  /\ iter' = NoIter
  /\ prevOutcome' = "none"
  /\ UNCHANGED <<file, clock, convVars>>

\* the log file is removed from outside (card pulled, file deleted over USB)
FileDisappears ==
  /\ file.exists
  /\ file' = Absent
  /\ iter' = NoIter
  /\ prevOutcome' = "none"
  /\ UNCHANGED <<pc, clock, runs, openHandles, convVars>>

Next == Startup \/ ProcessLine \/ Restart \/ FileDisappears

Spec == Init /\ [][Next]_vars

\* the converter applied to one magnitude string and hemisphere
InitConv ==
  /\ pc = "convert"
  /\ file = Absent
  /\ clock = 0
  /\ runs = 1
  /\ openHandles = 0
  /\ iter = NoIter
  /\ prevOutcome = "none"
  /\ raw_coord \in CoordInputs
  /\ direction \in Directions
  /\ result = None

Convert ==
  /\ pc = "convert"
  /\ result' = convert_nmea_coord(raw_coord, direction)
  /\ pc' = "converted"
  /\ UNCHANGED <<file, clock, runs, openHandles, iter, prevOutcome,
                 raw_coord, direction>>

NextConv == Convert

SpecConv == InitConv /\ [][NextConv]_vars

\* ------------------------------------------------------------ properties
IsIteration == iter.outcome \notin {"none", "startup"}
IsRecord(l) == Len(l) = 7
Records(f) == SelectSeq(f.lines, IsRecord)
HeaderCount(f) == Cardinality({i \in 1..Len(f.lines) : f.lines[i] = HeaderLine})
Reported(tag) == \E i \in 1..Len(iter.reports) : iter.reports[i] = tag

\* C1: for a valid fix with both sinks enabled, a failure of one sink does not
\* keep the other sink from being executed for that fix record.
C1_SinksIndependent ==
  iter.outcome = "fix" =>
    /\ iter.json = "failed" => iter.csv \in {"ok", "failed"}
    /\ iter.csv = "failed" => iter.json \in {"ok", "failed"}

\* C2: whenever an append succeeds, the first line of the log file is the
\* header row and every later line is a record.
C2_AppendKeepsStructure ==
  iter.csv = "ok" =>
    /\ Len(file.lines) >= 1
    /\ file.lines[1] = HeaderLine
    /\ \A i \in 2..Len(file.lines) : IsRecord(file.lines[i])

\* C3: a pass of the loop over any line, whatever fails in it, leaves the loop
\* running; the program only ever stops by itself at startup, when
\* record-to-log is enabled and ensure_file_exists fails.
C3_NoLineErrorIsFatal ==
  [][/\ (pc = "loop" /\ clock' = clock + 1) => pc' = "loop"
     /\ (pc' \in {"fatal", "crashed"} /\ pc' # pc) =>
          /\ pc = "init"
          /\ RECORD_TO_CSV
          /\ iter'.outcome = "startup"
          /\ ~iter'.ensureOk]_vars

C3_Witness ==
  /\ pc = "loop"
  /\ prevOutcome = "decode_error"
  /\ iter.outcome = "fix"
  /\ iter.csv = "ok"

\* C4: a failed append is reported, ensure_file_exists is called once (a
\* missing file comes back holding only the header), the append is not
\* retried so the record is not in the log, a failed recreation is reported
\* as a second error, and the loop goes on.
C4_FailedAppendRecovery ==
  iter.csv = "failed" =>
    /\ Reported("error_csv_write")
    /\ iter.ensureCalls = 1
    /\ iter.appends = 1
    /\ Records(file) = Records(iter.fileBefore)
    /\ (iter.ensureMissing /\ iter.ensureOk) => file = [exists |-> TRUE, lines |-> <<HeaderLine>>]
    /\ ~iter.ensureMissing => file.lines = iter.fileBefore.lines
    /\ ~iter.ensureOk => Reported("error_recreate_failed")
    /\ pc = "loop"

C4_Witness ==
  /\ iter.csv = "failed"
  /\ iter.ensureMissing
  /\ iter.ensureOk
  /\ file.lines = <<HeaderLine>>
  /\ clock >= 2

\* C5: an append to an already existing log file leaves it with exactly one
\* header row and keeps every line that was there, in place.
C5_ExactlyOneHeader ==
  (iter.csv = "ok" /\ iter.fileBefore.exists) =>
    /\ HeaderCount(file) = 1
    /\ Len(file.lines) = Len(iter.fileBefore.lines) + 1
    /\ SubSeq(file.lines, 1, Len(iter.fileBefore.lines)) = iter.fileBefore.lines

\* the line is a GGA sentence of at least 15 fields whose numeric fields parse
\* and whose latitude and longitude both convert
ValidFixLine(line) ==
  /\ Decodable(line)
  /\ \E t \in {Strip(line)} :
       /\ Len(t) >= 6
       /\ SubSeq(t, 1, 6) \in {GNGGA, GPGGA}
       /\ Cardinality({i \in 1..Len(t) : t[i] = ","}) >= 14
       /\ \E fs \in {Split(t, ",")} :
            /\ \A i \in {7, 8} : fs[i] = <<>> \/ ParseInt(fs[i]).ok
            /\ \A i \in {9, 10} : fs[i] = <<>> \/ ParseFloat(fs[i]).ok
            /\ convert_nmea_coord(fs[3], fs[4]).some
            /\ convert_nmea_coord(fs[5], fs[6]).some

\* C6: a line that is no valid fix emits no structured message, leaves the log
\* file unchanged and lets no exception escape; so a message or a CSV record
\* only comes from a valid fix line.
C6_OnlyValidFixReachesSinks ==
  (IsIteration /\ ~ValidFixLine(iter.line)) =>
    /\ iter.emitted = <<>>
    /\ iter.json = "none"
    /\ iter.csv = "none"
    /\ file = iter.fileBefore
    /\ pc = "loop"

C6_Witness ==
  /\ iter.outcome = "short"
  /\ iter.line = LineShort
  /\ Len(file.lines) >= 2
  /\ file = iter.fileBefore
  /\ pc = "loop"

\* C7: every non-null conversion has a magnitude, before the hemisphere sign
\* is applied, of at least 0 and at most 180 degrees.
C7_MagnitudeInRange ==
  \A c \in {iter.lat, iter.lon} :
    c.some => (c.mag.num >= 0 /\ c.mag.num <= 180 * Den(c.mag))

\* a DDMM.MMMMM / DDDMM.MMMMM magnitude: 4 or 5 digits, a point, digits
ValidMagnitude(raw) ==
  \E ps \in {Split(raw, ".")} :
    /\ Len(ps) = 2
    /\ Len(ps[1]) \in {4, 5}
    /\ AllDigits(ps[1])
    /\ Len(ps[2]) >= 1
    /\ AllDigits(ps[2])

\* C8: for a valid magnitude string the result is non-negative with
\* hemisphere N or E and non-positive with hemisphere S or W.
C8_SignFollowsHemisphere ==
  (pc = "converted" /\ ValidMagnitude(raw_coord)) =>
    /\ direction \in {DirN, DirE} => (result.some /\ result.value.num >= 0)
    /\ direction \in {DirS, DirW} => (result.some /\ result.value.num <= 0)

C8_Witness ==
  /\ pc = "converted"
  /\ raw_coord = Lon01131
  /\ direction = DirW
  /\ result.some
  /\ result.value.num < 0

\* C9: no handle on the log file is open between passes of the loop or after
\* startup, and a record is written by one open, one append and one close.
C9_NoHandleHeld ==
  /\ openHandles = 0
  /\ iter.opens = iter.closes
  /\ iter.csv = "ok" => (iter.opens = 1 /\ iter.appends = 1 /\ iter.closes = 1)

C9_Witness ==
  /\ iter.csv = "failed"
  /\ ~iter.ensureOk
  /\ iter.opens = 1
  /\ openHandles = 0
  /\ pc = "loop"

====
